---- MODULE Spec2Model ----
(***************************************************************************)
(* A model of the annotation and organisation calls of the Grafana API     *)
(* client (package gapi): src/annotation.go and src/orgs.go.               *)
(*                                                                         *)
(* Every call builds a request, hands it to the transport (c.Do), and on   *)
(* the answer checks the status code, reads the body and unmarshals it.    *)
(* A call is modelled in two steps, split at the one blocking point: the   *)
(* action named as the operation runs the code up to c.Do, its ...Return   *)
(* action runs the code from the answer of c.Do to the return statement.   *)
(*                                                                         *)
(* JSON documents are modelled as tagged values, the Go records as         *)
(* functions from Go field names to values, and encoding/json by what it   *)
(* does with the struct tags (key names, omitempty, type checks).          *)
(***************************************************************************)
EXTENDS Integers, Sequences, FiniteSets, TLC

VARIABLES config, calls, codec

vars == <<config, calls, codec>>

(***************************************************************************)
(* Bounds of the model.                                                    *)
(***************************************************************************)
\* identifiers range over 0..MaxId
MaxId == 7
\* longest list of annotations a list endpoint answers with
MaxList == 2

Ids == 0..MaxId

\* Go's nil error
Nil == "<nil>"

(***************************************************************************)
(* JSON documents.  Malformed stands for bytes that are no JSON document.  *)
(***************************************************************************)
JNull == [t |-> "null"]
JNum(n) == [t |-> "num", n |-> n]
JStr(s) == [t |-> "str", s |-> s]
JBool(b) == [t |-> "bool", b |-> b]
JArr(a) == [t |-> "arr", a |-> a]
JObj(o) == [t |-> "obj", o |-> o]
Malformed == [t |-> "malformed"]

SyntaxError == "json: invalid character looking for beginning of value"
TypeError == "json: cannot unmarshal value into Go value"

(***************************************************************************)
(* The struct tags.  A field is its Go name, its JSON key, its Go type and *)
(* whether the tag says omitempty.                                         *)
(***************************************************************************)
Field(name, key, type, omitempty) ==
  [name |-> name, key |-> key, type |-> type, omitempty |-> omitempty]

\* the mutant of AnnotationFields: omitempty slipped onto dashboardId and time
AnnotationFieldsOmitRequired ==
  << Field("ID", "id", "int64", TRUE),
     Field("AlertID", "alertId", "int64", TRUE),
     Field("DashboardID", "dashboardId", "int64", TRUE),
     Field("PanelID", "panelId", "int64", FALSE),
     Field("UserID", "userId", "int64", TRUE),
     Field("UserName", "userName", "string", TRUE),
     Field("NewState", "newState", "string", TRUE),
     Field("PrevState", "prevState", "string", TRUE),
     Field("Time", "time", "int64", TRUE),
     Field("TimeEnd", "timeEnd", "int64", TRUE),
     Field("Text", "text", "string", FALSE),
     Field("Metric", "metric", "string", TRUE),
     Field("RegionID", "regionId", "int64", TRUE),
     Field("Type", "type", "string", TRUE),
     Field("Tags", "tags", "[]string", TRUE),
     Field("IsRegion", "isRegion", "bool", TRUE) >>

AnnotationFields ==
  << Field("ID", "id", "int64", TRUE),
     Field("AlertID", "alertId", "int64", TRUE),
     Field("DashboardID", "dashboardId", "int64", FALSE),
     Field("PanelID", "panelId", "int64", FALSE),
     Field("UserID", "userId", "int64", TRUE),
     Field("UserName", "userName", "string", TRUE),
     Field("NewState", "newState", "string", TRUE),
     Field("PrevState", "prevState", "string", TRUE),
     Field("Time", "time", "int64", FALSE),
     Field("TimeEnd", "timeEnd", "int64", TRUE),
     Field("Text", "text", "string", FALSE),
     Field("Metric", "metric", "string", TRUE),
     Field("RegionID", "regionId", "int64", TRUE),
     Field("Type", "type", "string", TRUE),
     Field("Tags", "tags", "[]string", TRUE),
     Field("IsRegion", "isRegion", "bool", TRUE) >>

GraphiteAnnotationFields ==
  << Field("What", "what", "string", FALSE),
     Field("When", "when", "int64", FALSE),
     Field("Data", "data", "string", FALSE),
     Field("Tags", "tags", "[]string", TRUE) >>

OrgFields ==
  << Field("Id", "id", "int64", FALSE),
     Field("Name", "name", "string", FALSE) >>

\* The embedded User struct is declared outside src/; its fields are taken
\* as plain records with a 1:1 key mapping.
UserFields ==
  << Field("Id", "id", "int64", FALSE),
     Field("Login", "login", "string", FALSE) >>

OrgUserFields ==
  UserFields \o
  << Field("Role", "role", "string", FALSE),
     Field("OrgID", "orgId", "int64", FALSE) >>

\* struct { ID int64 `json:"id"` }
IdFields == << Field("ID", "id", "int64", FALSE) >>
\* struct { ID int64 `json:"orgId"` }
OrgIdFields == << Field("ID", "orgId", "int64", FALSE) >>
\* struct { Message string `json:"message"` }
MessageFields == << Field("Message", "message", "string", FALSE) >>

(***************************************************************************)
(* encoding/json, as far as these structs use it.                          *)
(***************************************************************************)
Names(fields) == { fields[i].name : i \in DOMAIN fields }

FieldNamed(fields, name) ==
  fields[CHOOSE i \in DOMAIN fields : fields[i].name = name]

ZeroValue(type) ==
  CASE type = "int64" -> 0
    [] type = "string" -> ""
    [] type = "bool" -> FALSE
    [] type = "[]string" -> << >>

Zero(fields) == [f \in Names(fields) |-> ZeroValue(FieldNamed(fields, f).type)]

\* isEmptyValue of encoding/json: what omitempty leaves out
IsEmptyValue(type, v) ==
  CASE type = "int64" -> v = 0
    [] type = "string" -> v = ""
    [] type = "bool" -> v = FALSE
    [] type = "[]string" -> Len(v) = 0

EncodeValue(type, v) ==
  CASE type = "int64" -> JNum(v)
    [] type = "string" -> JStr(v)
    [] type = "bool" -> JBool(v)
    [] type = "[]string" -> JArr([i \in 1..Len(v) |-> JStr(v[i])])

\* json.Marshal of a struct: one key per field, but for the empty omitempty ones
Marshal(fields, r) ==
  LET kept == { i \in DOMAIN fields :
                  ~(fields[i].omitempty /\ IsEmptyValue(fields[i].type, r[fields[i].name])) }
      keyIndex(k) == CHOOSE i \in kept : fields[i].key = k
  IN JObj([k \in { fields[i].key : i \in kept } |->
             EncodeValue(fields[keyIndex(k)].type, r[fields[keyIndex(k)].name])])

\* whether a JSON value can be stored into a Go value of the type
Fits(type, j) ==
  CASE j.t = "null" -> TRUE
    [] type = "int64" -> j.t = "num"
    [] type = "string" -> j.t = "str"
    [] type = "bool" -> j.t = "bool"
    [] type = "[]string" -> j.t = "arr" /\ \A i \in DOMAIN j.a : j.a[i].t \in {"str", "null"}

\* the value a field has after decoding j into it; a mismatch leaves it alone
DecodeValue(type, j, old) ==
  CASE j.t = "null" -> old
    [] type = "int64" -> IF j.t = "num" THEN j.n ELSE old
    [] type = "string" -> IF j.t = "str" THEN j.s ELSE old
    [] type = "bool" -> IF j.t = "bool" THEN j.b ELSE old
    [] type = "[]string" ->
         IF j.t = "arr"
         THEN [i \in 1..Len(j.a) |-> IF j.a[i].t = "str" THEN j.a[i].s ELSE ""]
         ELSE old

\* json.Unmarshal(data, &v) for a struct v holding init.  Keys of the
\* document that name no field are skipped, fields without a key keep
\* their value.  (Keys are matched exactly here; no key of the model
\* differs from a tag in case only.)
UnmarshalStruct(fields, data, init) ==
  IF data.t = "malformed" THEN [val |-> init, err |-> SyntaxError]
  ELSE IF data.t = "null" THEN [val |-> init, err |-> Nil]
  ELSE IF data.t # "obj" THEN [val |-> init, err |-> TypeError]
  ELSE
    [val |-> [f \in Names(fields) |->
                LET fld == FieldNamed(fields, f) IN
                IF fld.key \in DOMAIN data.o
                THEN DecodeValue(fld.type, data.o[fld.key], init[f])
                ELSE init[f]],
     err |-> IF \E i \in DOMAIN fields :
                   /\ fields[i].key \in DOMAIN data.o
                   /\ ~Fits(fields[i].type, data.o[fields[i].key])
             THEN TypeError ELSE Nil]

\* json.Unmarshal(data, &v) for a slice of structs
UnmarshalSlice(fields, data) ==
  IF data.t = "malformed" THEN [val |-> << >>, err |-> SyntaxError]
  ELSE IF data.t = "null" THEN [val |-> << >>, err |-> Nil]
  ELSE IF data.t # "arr" THEN [val |-> << >>, err |-> TypeError]
  ELSE
    [val |-> [i \in 1..Len(data.a) |-> UnmarshalStruct(fields, data.a[i], Zero(fields)).val],
     err |-> IF \E i \in DOMAIN data.a : UnmarshalStruct(fields, data.a[i], Zero(fields)).err # Nil
             THEN TypeError ELSE Nil]

(***************************************************************************)
(* fmt.Sprintf("%d", n)                                                    *)
(***************************************************************************)
Digit(d) ==
  CASE d = 0 -> "0" [] d = 1 -> "1" [] d = 2 -> "2" [] d = 3 -> "3" [] d = 4 -> "4"
    [] d = 5 -> "5" [] d = 6 -> "6" [] d = 7 -> "7" [] d = 8 -> "8" [] d = 9 -> "9"

RECURSIVE Itoa(_)
Itoa(n) ==
  IF n < 0 THEN "-" \o Itoa(-n)
  ELSE IF n < 10 THEN Digit(n)
  ELSE Itoa(n \div 10) \o Digit(n % 10)

(***************************************************************************)
(* The client.  Its declaration, newRequest and Do live outside src/; they *)
(* are modelled from the specification: the configuration is the base URL  *)
(* and the credential given at construction, newRequest joins base URL and *)
(* path and attaches the credential, Do sends the request and blocks until *)
(* the transport answers or fails.                                         *)
(***************************************************************************)
NewClient == [baseURL |-> "http://grafana.example", key |-> "Bearer secret"]

\* a nil io.Reader, and bytes.NewBuffer(nil)
NoBody == [t |-> "none"]
EmptyBody == [t |-> "empty"]

newRequest(method, requestPath, query, body) ==
  [req |-> [method |-> method,
            url |-> config.baseURL \o requestPath,
            path |-> requestPath,
            query |-> query,
            body |-> body,
            auth |-> config.key],
   err |-> Nil]

StatusText(code) ==
  CASE code = 200 -> "200 OK"
    [] code = 201 -> "201 Created"
    [] code = 204 -> "204 No Content"
    [] code = 404 -> "404 Not Found"
    [] code = 500 -> "500 Internal Server Error"

TransportError == "dial tcp: connection refused"
ReadError == "unexpected EOF"

\* what the transport does with a request: it fails, or it delivers a
\* response whose body can be read in full (readOK) or breaks off
TransportFailure == [kind |-> "fail"]
Response(code, body, readOK) ==
  [kind |-> "resp", code |-> code, body |-> body, readOK |-> readOK]
NoAnswer == [kind |-> "none"]

\* c.Do(req), given the transport's answer
Do(ans) ==
  IF ans.kind = "fail"
  THEN [resp |-> NoAnswer, err |-> TransportError]
  ELSE [resp |-> [StatusCode |-> ans.code,
                  Status |-> StatusText(ans.code),
                  Body |-> [data |-> ans.body, ok |-> ans.readOK]],
        err |-> Nil]

\* ioutil.ReadAll(resp.Body): the bytes read so far and the read error
ReadAll(body) ==
  IF body.ok THEN [data |-> body.data, err |-> Nil]
  ELSE [data |-> Malformed, err |-> ReadError]

(***************************************************************************)
(* One invocation of a public operation by a caller: where it stands (pc), *)
(* the operation and its arguments, the number of requests it has built,   *)
(* the requests it has handed to c.Do, the transport's answer, whether it  *)
(* has read the response body, and what it returns.                        *)
(***************************************************************************)
NoValue == [t |-> "none"]

Idle ==
  [pc |-> "idle", op |-> "", arg |-> NoValue, built |-> 0, sent |-> << >>,
   ans |-> NoAnswer, bodyRead |-> FALSE, val |-> NoValue, err |-> Nil]

\* the return values of a call, and whether the body was read on the way
Ret(val, err, bodyRead) == [val |-> val, err |-> err, bodyRead |-> bodyRead]

\* the call returns before any request is handed to c.Do
ReturnEarly(op, arg, built, val, err) ==
  [pc |-> "done", op |-> op, arg |-> arg, built |-> built, sent |-> << >>,
   ans |-> NoAnswer, bodyRead |-> FALSE, val |-> val, err |-> err]

\* the call is blocked in c.Do(req)
InDo(op, arg, req) ==
  [pc |-> "inDo", op |-> op, arg |-> arg, built |-> 1, sent |-> << req >>,
   ans |-> NoAnswer, bodyRead |-> FALSE, val |-> NoValue, err |-> Nil]

\* c.Do has answered and the call returns ret
Returned(call, ans, ret) ==
  [call EXCEPT !.pc = "done", !.ans = ans, !.bodyRead = ret.bodyRead,
               !.val = ret.val, !.err = ret.err]

\* a caller that has not yet invoked its operation
CanCall(p) == calls[p].pc = "idle"

\* the caller is blocked in c.Do of the operation
Awaits(p, op) == calls[p].pc = "inDo" /\ calls[p].op = op

(***************************************************************************)
(* src/annotation.go                                                       *)
(***************************************************************************)

\* Annotations, after c.Do
AnnotationsResult(ans) ==
  LET d == Do(ans) IN
  IF d.err # Nil THEN Ret(<< >>, d.err, FALSE)
  ELSE IF d.resp.StatusCode # 200 THEN Ret(<< >>, d.resp.Status, FALSE)
  ELSE LET rd == ReadAll(d.resp.Body) IN
       IF rd.err # Nil THEN Ret(<< >>, rd.err, TRUE)
       ELSE LET u == UnmarshalSlice(AnnotationFields, rd.data) IN
            Ret(u.val, u.err, TRUE)

Annotations(p, params) ==
  /\ CanCall(p)
  /\ LET r == newRequest("GET", "/api/annotation", params, NoBody)
         arg == [params |-> params]
     IN calls' = [calls EXCEPT ![p] =
                    IF r.err # Nil
                    THEN ReturnEarly("Annotations", arg, 1, << >>, r.err)
                    ELSE InDo("Annotations", arg, r.req)]
  /\ UNCHANGED <<config, codec>>

AnnotationsReturn(p, ans) ==
  /\ Awaits(p, "Annotations")
  /\ calls' = [calls EXCEPT ![p] = Returned(@, ans, AnnotationsResult(ans))]
  /\ UNCHANGED <<config, codec>>

\* the mutant of AnnotationResult: the scan keeps the last match, not the first
AnnotationResultLastMatch(id, ans) ==
  LET as == AnnotationsResult(ans) IN
  IF as.err # Nil THEN Ret(Zero(AnnotationFields), as.err, as.bodyRead)
  ELSE IF \E i \in DOMAIN as.val : as.val[i].ID = id
       THEN LET last == CHOOSE i \in DOMAIN as.val :
                          /\ as.val[i].ID = id
                          /\ \A j \in DOMAIN as.val : as.val[j].ID = id => j <= i
            IN Ret(as.val[last], Nil, as.bodyRead)
       ELSE Ret(Zero(AnnotationFields),
                "annotation " \o Itoa(id) \o " not found", as.bodyRead)

\* Annotation, after the c.Do of the Annotations call it makes
AnnotationResult(id, ans) ==
  LET as == AnnotationsResult(ans) IN
  IF as.err # Nil THEN Ret(Zero(AnnotationFields), as.err, as.bodyRead)
  ELSE IF \E i \in DOMAIN as.val : as.val[i].ID = id
       THEN LET first == CHOOSE i \in DOMAIN as.val :
                           /\ as.val[i].ID = id
                           /\ \A j \in 1..(i - 1) : as.val[j].ID # id
            IN Ret(as.val[first], Nil, as.bodyRead)
       ELSE Ret(Zero(AnnotationFields),
                "annotation " \o Itoa(id) \o " not found", as.bodyRead)

Annotation(p, id, params) ==
  /\ CanCall(p)
  /\ LET r == newRequest("GET", "/api/annotation", params, NoBody)
         arg == [id |-> id, params |-> params]
     IN calls' = [calls EXCEPT ![p] =
                    IF r.err # Nil
                    THEN ReturnEarly("Annotation", arg, 1, Zero(AnnotationFields), r.err)
                    ELSE InDo("Annotation", arg, r.req)]
  /\ UNCHANGED <<config, codec>>

AnnotationReturn(p, ans) ==
  /\ Awaits(p, "Annotation")
  /\ calls' = [calls EXCEPT ![p] = Returned(@, ans, AnnotationResult(@.arg.id, ans))]
  /\ UNCHANGED <<config, codec>>

\* the creation calls: the answer is decoded into struct{ID int64 `json:"id"`}
CreatedIdResult(ans) ==
  LET d == Do(ans) IN
  IF d.err # Nil THEN Ret(0, d.err, FALSE)
  ELSE IF d.resp.StatusCode # 200 THEN Ret(0, d.resp.Status, FALSE)
  ELSE LET rd == ReadAll(d.resp.Body) IN
       IF rd.err # Nil THEN Ret(0, rd.err, TRUE)
       ELSE LET u == UnmarshalStruct(IdFields, rd.data, Zero(IdFields)) IN
            Ret(u.val.ID, u.err, TRUE)

\* the mutant of NewAnnotationResult: the id is taken from the wrong key
NewAnnotationResultWrongKey(ans) ==
  LET d == Do(ans) IN
  IF d.err # Nil THEN Ret(0, d.err, FALSE)
  ELSE IF d.resp.StatusCode # 200 THEN Ret(0, d.resp.Status, FALSE)
  ELSE LET rd == ReadAll(d.resp.Body) IN
       IF rd.err # Nil THEN Ret(0, rd.err, TRUE)
       ELSE LET u == UnmarshalStruct(OrgIdFields, rd.data, Zero(OrgIdFields)) IN
            Ret(u.val.ID, u.err, TRUE)

\* NewAnnotation, after c.Do
NewAnnotationResult(ans) == CreatedIdResult(ans)

NewAnnotation(p, a) ==
  /\ CanCall(p)
  /\ LET data == Marshal(AnnotationFields, a)
         r == newRequest("POST", "/api/annotations", NoValue, data)
         arg == [a |-> a]
     IN calls' = [calls EXCEPT ![p] =
                    IF r.err # Nil
                    THEN ReturnEarly("NewAnnotation", arg, 1, 0, r.err)
                    ELSE InDo("NewAnnotation", arg, r.req)]
  /\ UNCHANGED <<config, codec>>

NewAnnotationReturn(p, ans) ==
  /\ Awaits(p, "NewAnnotation")
  /\ calls' = [calls EXCEPT ![p] = Returned(@, ans, NewAnnotationResult(ans))]
  /\ UNCHANGED <<config, codec>>

\* NewGraphiteAnnotation, after c.Do
NewGraphiteAnnotationResult(ans) == CreatedIdResult(ans)

NewGraphiteAnnotation(p, gfa) ==
  /\ CanCall(p)
  /\ LET data == Marshal(GraphiteAnnotationFields, gfa)
         r == newRequest("POST", "/api/annotations/graphite", NoValue, data)
         arg == [gfa |-> gfa]
     IN calls' = [calls EXCEPT ![p] =
                    IF r.err # Nil
                    THEN ReturnEarly("NewGraphiteAnnotation", arg, 1, 0, r.err)
                    ELSE InDo("NewGraphiteAnnotation", arg, r.req)]
  /\ UNCHANGED <<config, codec>>

NewGraphiteAnnotationReturn(p, ans) ==
  /\ Awaits(p, "NewGraphiteAnnotation")
  /\ calls' = [calls EXCEPT ![p] = Returned(@, ans, NewGraphiteAnnotationResult(ans))]
  /\ UNCHANGED <<config, codec>>

\* the update and delete calls: the answer is decoded into
\* struct{Message string `json:"message"`}
MessageResult(ans) ==
  LET d == Do(ans) IN
  IF d.err # Nil THEN Ret("", d.err, FALSE)
  ELSE IF d.resp.StatusCode # 200 THEN Ret("", d.resp.Status, FALSE)
  ELSE LET rd == ReadAll(d.resp.Body) IN
       IF rd.err # Nil THEN Ret("", rd.err, TRUE)
       ELSE LET u == UnmarshalStruct(MessageFields, rd.data, Zero(MessageFields)) IN
            Ret(u.val.Message, u.err, TRUE)

UpdateAnnotation(p, id, a) ==
  /\ CanCall(p)
  /\ LET path == "/api/annotations/" \o Itoa(id)
         data == Marshal(AnnotationFields, a)
         r == newRequest("PUT", path, NoValue, data)
         arg == [id |-> id, a |-> a]
     IN calls' = [calls EXCEPT ![p] =
                    IF r.err # Nil
                    THEN ReturnEarly("UpdateAnnotation", arg, 1, "", r.err)
                    ELSE InDo("UpdateAnnotation", arg, r.req)]
  /\ UNCHANGED <<config, codec>>

UpdateAnnotationReturn(p, ans) ==
  /\ Awaits(p, "UpdateAnnotation")
  /\ calls' = [calls EXCEPT ![p] = Returned(@, ans, MessageResult(ans))]
  /\ UNCHANGED <<config, codec>>

PatchAnnotation(p, id, a) ==
  /\ CanCall(p)
  /\ LET path == "/api/annotations/" \o Itoa(id)
         data == Marshal(AnnotationFields, a)
         r == newRequest("PATCH", path, NoValue, data)
         arg == [id |-> id, a |-> a]
     IN calls' = [calls EXCEPT ![p] =
                    IF r.err # Nil
                    THEN ReturnEarly("PatchAnnotation", arg, 1, "", r.err)
                    ELSE InDo("PatchAnnotation", arg, r.req)]
  /\ UNCHANGED <<config, codec>>

PatchAnnotationReturn(p, ans) ==
  /\ Awaits(p, "PatchAnnotation")
  /\ calls' = [calls EXCEPT ![p] = Returned(@, ans, MessageResult(ans))]
  /\ UNCHANGED <<config, codec>>

DeleteAnnotation(p, id) ==
  /\ CanCall(p)
  /\ LET path == "/api/annotations/" \o Itoa(id)
         r == newRequest("DELETE", path, NoValue, EmptyBody)
         arg == [id |-> id]
     IN calls' = [calls EXCEPT ![p] =
                    IF r.err # Nil
                    THEN ReturnEarly("DeleteAnnotation", arg, 1, "", r.err)
                    ELSE InDo("DeleteAnnotation", arg, r.req)]
  /\ UNCHANGED <<config, codec>>

DeleteAnnotationReturn(p, ans) ==
  /\ Awaits(p, "DeleteAnnotation")
  /\ calls' = [calls EXCEPT ![p] = Returned(@, ans, MessageResult(ans))]
  /\ UNCHANGED <<config, codec>>

DeleteAnnotationByRegionID(p, id) ==
  /\ CanCall(p)
  /\ LET path == "/api/annotations/region/" \o Itoa(id)
         r == newRequest("DELETE", path, NoValue, EmptyBody)
         arg == [id |-> id]
     IN calls' = [calls EXCEPT ![p] =
                    IF r.err # Nil
                    THEN ReturnEarly("DeleteAnnotationByRegionID", arg, 1, "", r.err)
                    ELSE InDo("DeleteAnnotationByRegionID", arg, r.req)]
  /\ UNCHANGED <<config, codec>>

DeleteAnnotationByRegionIDReturn(p, ans) ==
  /\ Awaits(p, "DeleteAnnotationByRegionID")
  /\ calls' = [calls EXCEPT ![p] = Returned(@, ans, MessageResult(ans))]
  /\ UNCHANGED <<config, codec>>

(***************************************************************************)
(* src/orgs.go.  (Its calls of newRequest pass no query.)                  *)
(***************************************************************************)
OrgUserRoleViewer == "Viewer"
OrgUserRoleAdmin == "Admin"
OrgUserRoleEditor == "Editor"

\* the calls that return an error only and read the body without decoding it
\* (Org.AddUser, Org.RemoveUser), after c.Do
ReadOnlyResult(ans) ==
  LET d == Do(ans) IN
  IF d.err # Nil THEN Ret(NoValue, d.err, FALSE)
  ELSE IF d.resp.StatusCode # 200 THEN Ret(NoValue, d.resp.Status, FALSE)
  ELSE Ret(NoValue, ReadAll(d.resp.Body).err, TRUE)

\* the mutant of OrgAddUser: the role is not validated
OrgAddUserNoValidation(p, o, username, role) ==
  /\ CanCall(p)
  /\ LET arg == [o |-> o, username |-> username, role |-> role]
         data == JObj([role |-> JStr(role), loginOrEmail |-> JStr(username)])
         r == newRequest("POST", "/api/orgs/" \o Itoa(o.Id) \o "/users", NoValue, data)
     IN calls' = [calls EXCEPT ![p] = InDo("Org.AddUser", arg, r.req)]
  /\ UNCHANGED <<config, codec>>

OrgAddUser(p, o, username, role) ==
  /\ CanCall(p)
  /\ LET arg == [o |-> o, username |-> username, role |-> role]
         validRole == role = OrgUserRoleAdmin \/ role = OrgUserRoleEditor
                        \/ role = OrgUserRoleViewer
         data == JObj([role |-> JStr(role), loginOrEmail |-> JStr(username)])
         r == newRequest("POST", "/api/orgs/" \o Itoa(o.Id) \o "/users", NoValue, data)
     IN calls' = [calls EXCEPT ![p] =
                    IF ~validRole
                    THEN ReturnEarly("Org.AddUser", arg, 0, NoValue,
                                     "invalid role name: " \o role)
                    ELSE IF r.err # Nil
                    THEN ReturnEarly("Org.AddUser", arg, 1, NoValue, r.err)
                    ELSE InDo("Org.AddUser", arg, r.req)]
  /\ UNCHANGED <<config, codec>>

OrgAddUserReturn(p, ans) ==
  /\ Awaits(p, "Org.AddUser")
  /\ calls' = [calls EXCEPT ![p] = Returned(@, ans, ReadOnlyResult(ans))]
  /\ UNCHANGED <<config, codec>>

\* Org.Dashboards sends nothing: it is not implemented
OrgDashboards(p, o) ==
  /\ CanCall(p)
  /\ calls' = [calls EXCEPT ![p] =
                 ReturnEarly("Org.Dashboards", [o |-> o], 0, << >>, "not implemented")]
  /\ UNCHANGED <<config, codec>>

\* Org.Users, after c.Do
OrgUsersResult(ans) ==
  LET d == Do(ans) IN
  IF d.err # Nil THEN Ret(<< >>, d.err, FALSE)
  ELSE IF d.resp.StatusCode # 200 THEN Ret(<< >>, d.resp.Status, FALSE)
  ELSE LET rd == ReadAll(d.resp.Body) IN
       IF rd.err # Nil THEN Ret(<< >>, rd.err, TRUE)
       ELSE LET u == UnmarshalSlice(OrgUserFields, rd.data) IN
            Ret(u.val, u.err, TRUE)

OrgUsers(p, o) ==
  /\ CanCall(p)
  /\ LET r == newRequest("GET", "/api/orgs/" \o Itoa(o.Id) \o "/users", NoValue, NoBody)
         arg == [o |-> o]
     IN calls' = [calls EXCEPT ![p] =
                    IF r.err # Nil
                    THEN ReturnEarly("Org.Users", arg, 1, << >>, r.err)
                    ELSE InDo("Org.Users", arg, r.req)]
  /\ UNCHANGED <<config, codec>>

OrgUsersReturn(p, ans) ==
  /\ Awaits(p, "Org.Users")
  /\ calls' = [calls EXCEPT ![p] = Returned(@, ans, OrgUsersResult(ans))]
  /\ UNCHANGED <<config, codec>>

OrgRemoveUser(p, o, userID) ==
  /\ CanCall(p)
  /\ LET r == newRequest("DELETE",
                         "/api/orgs/" \o Itoa(o.Id) \o "/users/" \o Itoa(userID),
                         NoValue, NoBody)
         arg == [o |-> o, userID |-> userID]
     IN calls' = [calls EXCEPT ![p] =
                    IF r.err # Nil
                    THEN ReturnEarly("Org.RemoveUser", arg, 1, NoValue, r.err)
                    ELSE InDo("Org.RemoveUser", arg, r.req)]
  /\ UNCHANGED <<config, codec>>

OrgRemoveUserReturn(p, ans) ==
  /\ Awaits(p, "Org.RemoveUser")
  /\ calls' = [calls EXCEPT ![p] = Returned(@, ans, ReadOnlyResult(ans))]
  /\ UNCHANGED <<config, codec>>

\* Org and OrgByName, after c.Do
OrgResult(ans) ==
  LET d == Do(ans) IN
  IF d.err # Nil THEN Ret(Zero(OrgFields), d.err, FALSE)
  ELSE IF d.resp.StatusCode # 200 THEN Ret(Zero(OrgFields), d.resp.Status, FALSE)
  ELSE LET rd == ReadAll(d.resp.Body) IN
       IF rd.err # Nil THEN Ret(Zero(OrgFields), rd.err, TRUE)
       ELSE LET u == UnmarshalStruct(OrgFields, rd.data, Zero(OrgFields)) IN
            Ret(u.val, u.err, TRUE)

Org(p, id) ==
  /\ CanCall(p)
  /\ LET r == newRequest("GET", "/api/orgs/" \o Itoa(id), NoValue, NoBody)
         arg == [id |-> id]
     IN calls' = [calls EXCEPT ![p] =
                    IF r.err # Nil
                    THEN ReturnEarly("Org", arg, 1, Zero(OrgFields), r.err)
                    ELSE InDo("Org", arg, r.req)]
  /\ UNCHANGED <<config, codec>>

\* the mutant of OrgReturn: a failed round trip is sent again
OrgReturnRetry(p, ans) ==
  /\ Awaits(p, "Org")
  /\ calls' = [calls EXCEPT ![p] =
                 IF ans.kind = "fail" /\ Len(@.sent) < 2
                 THEN [@ EXCEPT !.sent = Append(@, @[1])]
                 ELSE Returned(@, ans, OrgResult(ans))]
  /\ UNCHANGED <<config, codec>>

OrgReturn(p, ans) ==
  /\ Awaits(p, "Org")
  /\ calls' = [calls EXCEPT ![p] = Returned(@, ans, OrgResult(ans))]
  /\ UNCHANGED <<config, codec>>

OrgByName(p, name) ==
  /\ CanCall(p)
  /\ LET r == newRequest("GET", "/api/orgs/name/" \o name, NoValue, NoBody)
         arg == [name |-> name]
     IN calls' = [calls EXCEPT ![p] =
                    IF r.err # Nil
                    THEN ReturnEarly("OrgByName", arg, 1, Zero(OrgFields), r.err)
                    ELSE InDo("OrgByName", arg, r.req)]
  /\ UNCHANGED <<config, codec>>

OrgByNameReturn(p, ans) ==
  /\ Awaits(p, "OrgByName")
  /\ calls' = [calls EXCEPT ![p] = Returned(@, ans, OrgResult(ans))]
  /\ UNCHANGED <<config, codec>>

\* Orgs, after c.Do
OrgsResult(ans) ==
  LET d == Do(ans) IN
  IF d.err # Nil THEN Ret(<< >>, d.err, FALSE)
  ELSE IF d.resp.StatusCode # 200 THEN Ret(<< >>, d.resp.Status, FALSE)
  ELSE LET rd == ReadAll(d.resp.Body) IN
       IF rd.err # Nil THEN Ret(<< >>, rd.err, TRUE)
       ELSE LET u == UnmarshalSlice(OrgFields, rd.data) IN
            Ret(u.val, u.err, TRUE)

Orgs(p) ==
  /\ CanCall(p)
  /\ LET r == newRequest("GET", "/api/orgs/", NoValue, NoBody)
     IN calls' = [calls EXCEPT ![p] =
                    IF r.err # Nil
                    THEN ReturnEarly("Orgs", NoValue, 1, << >>, r.err)
                    ELSE InDo("Orgs", NoValue, r.req)]
  /\ UNCHANGED <<config, codec>>

\* the mutant of OrgsReturn: the request path is joined into the client's own
\* base URL instead of into a copy of it
OrgsReturnSharedURL(p, ans) ==
  /\ Awaits(p, "Orgs")
  /\ calls' = [calls EXCEPT ![p] = Returned(@, ans, OrgsResult(ans))]
  /\ config' = [config EXCEPT !.baseURL = calls[p].sent[1].url]
  /\ UNCHANGED codec

OrgsReturn(p, ans) ==
  /\ Awaits(p, "Orgs")
  /\ calls' = [calls EXCEPT ![p] = Returned(@, ans, OrgsResult(ans))]
  /\ UNCHANGED <<config, codec>>

\* the mutant of NewOrgResult: any 2xx status counts as success
NewOrgResultRange(name, ans) ==
  LET d == Do(ans)
      org == [Id |-> 0, Name |-> name]
  IN
  IF d.err # Nil THEN Ret(org, d.err, FALSE)
  ELSE IF d.resp.StatusCode < 200 \/ d.resp.StatusCode > 299
       THEN Ret(org, d.resp.Status, FALSE)
  ELSE LET rd == ReadAll(d.resp.Body)
           u == UnmarshalStruct(OrgIdFields, rd.data, Zero(OrgIdFields))
       IN Ret([org EXCEPT !.Id = u.val.ID], rd.err, TRUE)

\* the mutant of NewOrgResult: the id is decoded from the key `id`
NewOrgResultIdKey(name, ans) ==
  LET d == Do(ans)
      org == [Id |-> 0, Name |-> name]
  IN
  IF d.err # Nil THEN Ret(org, d.err, FALSE)
  ELSE IF d.resp.StatusCode # 200 THEN Ret(org, d.resp.Status, FALSE)
  ELSE LET rd == ReadAll(d.resp.Body)
           u == UnmarshalStruct(IdFields, rd.data, Zero(IdFields))
       IN Ret([org EXCEPT !.Id = u.val.ID], rd.err, TRUE)

\* NewOrg, after c.Do: the error of json.Unmarshal is dropped
NewOrgResult(name, ans) ==
  LET d == Do(ans)
      org == [Id |-> 0, Name |-> name]
  IN
  IF d.err # Nil THEN Ret(org, d.err, FALSE)
  ELSE IF d.resp.StatusCode # 200 THEN Ret(org, d.resp.Status, FALSE)
  ELSE LET rd == ReadAll(d.resp.Body)
           u == UnmarshalStruct(OrgIdFields, rd.data, Zero(OrgIdFields))
       IN Ret([org EXCEPT !.Id = u.val.ID], rd.err, TRUE)

NewOrg(p, name) ==
  /\ CanCall(p)
  /\ LET org == [Id |-> 0, Name |-> name]
         data == Marshal(OrgFields, org)
         r == newRequest("POST", "/api/orgs", NoValue, data)
         arg == [name |-> name]
     IN calls' = [calls EXCEPT ![p] =
                    IF r.err # Nil
                    THEN ReturnEarly("NewOrg", arg, 1, org, r.err)
                    ELSE InDo("NewOrg", arg, r.req)]
  /\ UNCHANGED <<config, codec>>

NewOrgReturn(p, ans) ==
  /\ Awaits(p, "NewOrg")
  /\ calls' = [calls EXCEPT ![p] = Returned(@, ans, NewOrgResult(@.arg.name, ans))]
  /\ UNCHANGED <<config, codec>>

\* DeleteOrg, after c.Do: the body is not read
DeleteOrgResult(ans) ==
  LET d == Do(ans) IN
  IF d.err # Nil THEN Ret(NoValue, d.err, FALSE)
  ELSE IF d.resp.StatusCode # 200 THEN Ret(NoValue, d.resp.Status, FALSE)
  ELSE Ret(NoValue, d.err, FALSE)

DeleteOrg(p, id) ==
  /\ CanCall(p)
  /\ LET r == newRequest("DELETE", "/api/orgs/" \o Itoa(id), NoValue, NoBody)
         arg == [id |-> id]
     IN calls' = [calls EXCEPT ![p] =
                    IF r.err # Nil
                    THEN ReturnEarly("DeleteOrg", arg, 1, NoValue, r.err)
                    ELSE InDo("DeleteOrg", arg, r.req)]
  /\ UNCHANGED <<config, codec>>

DeleteOrgReturn(p, ans) ==
  /\ Awaits(p, "DeleteOrg")
  /\ calls' = [calls EXCEPT ![p] = Returned(@, ans, DeleteOrgResult(ans))]
  /\ UNCHANGED <<config, codec>>

(***************************************************************************)
(* The wire format on its own: a record is marshalled and the document is  *)
(* unmarshalled into a zero record of the same type.                       *)
(***************************************************************************)
FieldsOf(kind) ==
  CASE kind = "Annotation" -> AnnotationFields
    [] kind = "GraphiteAnnotation" -> GraphiteAnnotationFields
    [] kind = "Org" -> OrgFields
    [] kind = "OrgUser" -> OrgUserFields

CodecOff ==
  [pc |-> "off", kind |-> "", rec |-> NoValue, data |-> NoValue,
   back |-> NoValue, err |-> Nil]

MarshalRecord ==
  /\ codec.pc = "rec"
  /\ codec' = [codec EXCEPT !.pc = "wire",
                            !.data = Marshal(FieldsOf(codec.kind), codec.rec)]
  /\ UNCHANGED <<config, calls>>

UnmarshalRecord ==
  /\ codec.pc = "wire"
  /\ LET u == UnmarshalStruct(FieldsOf(codec.kind), codec.data,
                              Zero(FieldsOf(codec.kind)))
     IN codec' = [codec EXCEPT !.pc = "back", !.back = u.val, !.err = u.err]
  /\ UNCHANGED <<config, calls>>

(***************************************************************************)
(* The inputs: callers, arguments and the answers of the transport.        *)
(***************************************************************************)
Callers == {"c1", "c2"}
Main == "c1"

StatusCodes == {200, 201, 204, 404, 500}

ParamsSet == {[tags |-> << >>], [tags |-> << "deploy" >>]}

SampleAnnotation(id, text) ==
  [Zero(AnnotationFields) EXCEPT !.ID = id, !.Text = text, !.DashboardID = 3, !.Time = 1500]

AnnotationArgs == {SampleAnnotation(0, "deploy"), Zero(AnnotationFields)}

GraphiteArgs ==
  {[What |-> "deploy", When |-> 1500, Data |-> "v2", Tags |-> << "a" >>],
   Zero(GraphiteAnnotationFields)}

OrgArgs == {[Id |-> 1, Name |-> "main"], [Id |-> MaxId, Name |-> "ops"]}
NameArgs == {"main", "ops"}
RoleArgs == {OrgUserRoleViewer, OrgUserRoleAdmin, OrgUserRoleEditor, "admin", "Owner", ""}
UserNameArgs == {"alice"}

\* the records a list endpoint answers with: two of them share an id, one has none
ListedAnnotations ==
  {SampleAnnotation(1, "a"), SampleAnnotation(5, "b"), SampleAnnotation(5, "c"),
   SampleAnnotation(0, "z")}

SeqsUpTo(S, n) == UNION {[1..k -> S] : k \in 0..n}

AnnotationListBodies ==
  { JArr([i \in DOMAIN l |-> Marshal(AnnotationFields, l[i])]) :
      l \in SeqsUpTo(ListedAnnotations, MaxList) }

IdBodies == { JObj([id |-> JNum(n)]) : n \in Ids \cup {42} }
OrgIdBodies ==
  { JObj([orgId |-> JNum(n), message |-> JStr("Organization created")]) : n \in Ids }

OtherBodies ==
  { Malformed, JNull, JObj(<< >>), JArr(<< JNum(1) >>),
    JObj([id |-> JStr("x")]), JObj([orgId |-> JStr("x")]),
    JObj([message |-> JStr("Annotation deleted")]), JObj([message |-> JNum(1)]),
    Marshal(OrgFields, [Id |-> 1, Name |-> "main"]),
    JArr(<< Marshal(OrgFields, [Id |-> 1, Name |-> "main"]),
            Marshal(OrgFields, [Id |-> 2, Name |-> "ops"]) >>),
    JArr(<< Marshal(OrgUserFields,
                    [Id |-> 4, Login |-> "alice", Role |-> "Admin", OrgID |-> 1]) >>) }

Bodies == AnnotationListBodies \cup IdBodies \cup OrgIdBodies \cup OtherBodies

Answers ==
  {TransportFailure}
    \cup { Response(code, body, TRUE) : code \in StatusCodes, body \in Bodies }
    \cup { Response(code, Malformed, FALSE) : code \in StatusCodes }

\* the inputs of the runs with two callers
ConcIds == {1, 5}
ConcAnswers ==
  { TransportFailure,
    Response(404, Malformed, TRUE),
    Response(200, Malformed, FALSE),
    Response(200, JObj([id |-> JNum(42)]), TRUE),
    Response(200, JObj([message |-> JStr("Annotation deleted")]), TRUE),
    Response(200, JArr(<< Marshal(AnnotationFields, SampleAnnotation(5, "b")) >>), TRUE) }

\* the records of the wire-format runs: all fields zero, all fields set, and
\* each field alone set or alone zero
FullValue(type, n) ==
  CASE type = "int64" -> n
    [] type = "string" -> "s" \o Itoa(n)
    [] type = "bool" -> TRUE
    [] type = "[]string" -> << "t", Itoa(n) >>

Full(fields, n) == [f \in Names(fields) |-> FullValue(FieldNamed(fields, f).type, n)]

Records(fields) ==
  {Zero(fields)}
    \cup { Full(fields, n) : n \in 1..MaxId }
    \cup { [Zero(fields) EXCEPT ![f] = Full(fields, n)[f]] : f \in Names(fields), n \in 1..MaxId }
    \cup { [Full(fields, n) EXCEPT ![f] = Zero(fields)[f]] : f \in Names(fields), n \in 1..MaxId }

Kinds == {"Annotation", "GraphiteAnnotation", "Org", "OrgUser"}

(***************************************************************************)
(* The specifications.                                                     *)
(***************************************************************************)
Init ==
  /\ config = NewClient
  /\ calls = [p \in Callers |-> Idle]
  /\ codec = CodecOff

\* one caller, every operation, every answer
Next ==
  \E p \in {Main} :
    \/ \E params \in ParamsSet : Annotations(p, params)
    \/ \E ans \in Answers : AnnotationsReturn(p, ans)
    \/ \E id \in Ids, params \in ParamsSet : Annotation(p, id, params)
    \/ \E ans \in Answers : AnnotationReturn(p, ans)
    \/ \E a \in AnnotationArgs : NewAnnotation(p, a)
    \/ \E ans \in Answers : NewAnnotationReturn(p, ans)
    \/ \E gfa \in GraphiteArgs : NewGraphiteAnnotation(p, gfa)
    \/ \E ans \in Answers : NewGraphiteAnnotationReturn(p, ans)
    \/ \E id \in Ids, a \in AnnotationArgs : UpdateAnnotation(p, id, a)
    \/ \E ans \in Answers : UpdateAnnotationReturn(p, ans)
    \/ \E id \in Ids, a \in AnnotationArgs : PatchAnnotation(p, id, a)
    \/ \E ans \in Answers : PatchAnnotationReturn(p, ans)
    \/ \E id \in Ids : DeleteAnnotation(p, id)
    \/ \E ans \in Answers : DeleteAnnotationReturn(p, ans)
    \/ \E id \in Ids : DeleteAnnotationByRegionID(p, id)
    \/ \E ans \in Answers : DeleteAnnotationByRegionIDReturn(p, ans)
    \/ \E o \in OrgArgs, u \in UserNameArgs, role \in RoleArgs : OrgAddUser(p, o, u, role)
    \/ \E ans \in Answers : OrgAddUserReturn(p, ans)
    \/ \E o \in OrgArgs : OrgDashboards(p, o)
    \/ \E o \in OrgArgs : OrgUsers(p, o)
    \/ \E ans \in Answers : OrgUsersReturn(p, ans)
    \/ \E o \in OrgArgs, id \in Ids : OrgRemoveUser(p, o, id)
    \/ \E ans \in Answers : OrgRemoveUserReturn(p, ans)
    \/ \E id \in Ids : Org(p, id)
    \/ \E ans \in Answers : OrgReturn(p, ans)
    \/ \E name \in NameArgs : OrgByName(p, name)
    \/ \E ans \in Answers : OrgByNameReturn(p, ans)
    \/ Orgs(p)
    \/ \E ans \in Answers : OrgsReturn(p, ans)
    \/ \E name \in NameArgs : NewOrg(p, name)
    \/ \E ans \in Answers : NewOrgReturn(p, ans)
    \/ \E id \in Ids : DeleteOrg(p, id)
    \/ \E ans \in Answers : DeleteOrgReturn(p, ans)

Spec == Init /\ [][Next]_vars

\* several callers on the same client, their calls interleaved at c.Do
NextConc ==
  \E p \in Callers :
    \/ \E params \in ParamsSet : Annotations(p, params)
    \/ \E ans \in ConcAnswers : AnnotationsReturn(p, ans)
    \/ \E id \in ConcIds, params \in ParamsSet : Annotation(p, id, params)
    \/ \E ans \in ConcAnswers : AnnotationReturn(p, ans)
    \/ \E a \in AnnotationArgs : NewAnnotation(p, a)
    \/ \E ans \in ConcAnswers : NewAnnotationReturn(p, ans)
    \/ \E gfa \in GraphiteArgs : NewGraphiteAnnotation(p, gfa)
    \/ \E ans \in ConcAnswers : NewGraphiteAnnotationReturn(p, ans)
    \/ \E id \in ConcIds, a \in AnnotationArgs : UpdateAnnotation(p, id, a)
    \/ \E ans \in ConcAnswers : UpdateAnnotationReturn(p, ans)
    \/ \E id \in ConcIds, a \in AnnotationArgs : PatchAnnotation(p, id, a)
    \/ \E ans \in ConcAnswers : PatchAnnotationReturn(p, ans)
    \/ \E id \in ConcIds : DeleteAnnotation(p, id)
    \/ \E ans \in ConcAnswers : DeleteAnnotationReturn(p, ans)
    \/ \E id \in ConcIds : DeleteAnnotationByRegionID(p, id)
    \/ \E ans \in ConcAnswers : DeleteAnnotationByRegionIDReturn(p, ans)
    \/ \E o \in OrgArgs, u \in UserNameArgs, role \in RoleArgs : OrgAddUser(p, o, u, role)
    \/ \E ans \in ConcAnswers : OrgAddUserReturn(p, ans)
    \/ \E o \in OrgArgs : OrgDashboards(p, o)
    \/ \E o \in OrgArgs : OrgUsers(p, o)
    \/ \E ans \in ConcAnswers : OrgUsersReturn(p, ans)
    \/ \E o \in OrgArgs, id \in ConcIds : OrgRemoveUser(p, o, id)
    \/ \E ans \in ConcAnswers : OrgRemoveUserReturn(p, ans)
    \/ \E id \in ConcIds : Org(p, id)
    \/ \E ans \in ConcAnswers : OrgReturn(p, ans)
    \/ \E name \in NameArgs : OrgByName(p, name)
    \/ \E ans \in ConcAnswers : OrgByNameReturn(p, ans)
    \/ Orgs(p)
    \/ \E ans \in ConcAnswers : OrgsReturn(p, ans)
    \/ \E name \in NameArgs : NewOrg(p, name)
    \/ \E ans \in ConcAnswers : NewOrgReturn(p, ans)
    \/ \E id \in ConcIds : DeleteOrg(p, id)
    \/ \E ans \in ConcAnswers : DeleteOrgReturn(p, ans)

SpecConc == Init /\ [][NextConc]_vars

\* the wire format: any record of the four types, marshalled and unmarshalled
InitWire ==
  /\ config = NewClient
  /\ calls = [p \in Callers |-> Idle]
  /\ codec \in UNION { { [pc |-> "rec", kind |-> k, rec |-> r, data |-> NoValue,
                           back |-> NoValue, err |-> Nil] : r \in Records(FieldsOf(k)) } :
                       k \in Kinds }

NextWire == MarshalRecord \/ UnmarshalRecord

SpecWire == InitWire /\ [][NextWire]_vars

(***************************************************************************)
(* The properties.                                                         *)
(***************************************************************************)
Finished(c) == c.pc = "done"

\* the transport delivered a 200 response whose body could be read in full
Got200(c) == c.ans.kind = "resp" /\ c.ans.code = 200 /\ c.ans.readOK

RequestOps ==
  {"Annotations", "Annotation", "NewAnnotation", "NewGraphiteAnnotation",
   "UpdateAnnotation", "PatchAnnotation", "DeleteAnnotation",
   "DeleteAnnotationByRegionID", "Org.AddUser", "Org.Users", "Org.RemoveUser",
   "Org", "OrgByName", "Orgs", "NewOrg", "DeleteOrg"}

ValidRoles == {"Admin", "Editor", "Viewer"}

\* what a call returns beside the error when nothing of a response is in it
NothingParsed(c) ==
  CASE c.op \in {"Annotations", "Org.Users", "Orgs"} -> c.val = << >>
    [] c.op = "Annotation" -> c.val = Zero(AnnotationFields)
    [] c.op \in {"NewAnnotation", "NewGraphiteAnnotation"} -> c.val = 0
    [] c.op \in {"UpdateAnnotation", "PatchAnnotation", "DeleteAnnotation",
                 "DeleteAnnotationByRegionID"} -> c.val = ""
    [] c.op \in {"Org", "OrgByName"} -> c.val = [Id |-> 0, Name |-> ""]
    [] c.op = "NewOrg" -> c.val = [Id |-> 0, Name |-> c.arg.name]
    [] c.op \in {"Org.AddUser", "Org.RemoveUser", "DeleteOrg"} -> c.val = NoValue

\* C1: a response whose status code is not exactly 200 makes every operation
\* that sends a request return a non-nil error that is the response's status
\* text, with no resource parsed from the response and the body never read.
C1_NonSuccessIsError ==
  \A p \in Callers :
    LET c == calls[p] IN
    (Finished(c) /\ c.op \in RequestOps /\ c.ans.kind = "resp" /\ c.ans.code # 200)
      => /\ c.err # Nil
         /\ c.err = StatusText(c.ans.code)
         /\ ~c.bodyRead
         /\ NothingParsed(c)

C1_Witness ==
  \E p \in Callers :
    /\ Finished(calls[p]) /\ calls[p].op = "NewOrg"
    /\ calls[p].ans.kind = "resp" /\ calls[p].ans.code = 201
    /\ calls[p].ans.body = JObj([orgId |-> JNum(5), message |-> JStr("Organization created")])
    /\ calls[p].err = "201 Created" /\ ~calls[p].bodyRead

\* C2: when the list request of Annotation(id, params) succeeds with a list L,
\* the call returns the first record of L whose ID is id with a nil error, and
\* an empty Annotation with the "not found" error when L has no such record.
C2_AnnotationByID ==
  \A p \in Callers :
    LET c == calls[p]
        l == UnmarshalSlice(AnnotationFields, c.ans.body)
        matches == { i \in DOMAIN l.val : l.val[i].ID = c.arg.id }
    IN
    (Finished(c) /\ c.op = "Annotation" /\ Got200(c) /\ l.err = Nil)
      => IF matches # {}
         THEN /\ c.err = Nil
              /\ \E i \in matches : (\A j \in matches : i <= j) /\ c.val = l.val[i]
         ELSE /\ c.err = "annotation " \o Itoa(c.arg.id) \o " not found"
              /\ c.err # Nil
              /\ c.val = Zero(AnnotationFields)

C2_Witness ==
  \E p \in Callers :
    /\ Finished(calls[p]) /\ calls[p].op = "Annotation" /\ Got200(calls[p])
    /\ calls[p].arg.id = 5
    /\ calls[p].ans.body =
         JArr(<< Marshal(AnnotationFields, SampleAnnotation(5, "b")),
                 Marshal(AnnotationFields, SampleAnnotation(5, "c")) >>)
    /\ calls[p].val = SampleAnnotation(5, "b") /\ calls[p].err = Nil

\* C3: Org.AddUser with a role outside {Admin, Editor, Viewer} returns a
\* non-nil error without building or sending a request; with a role inside the
\* set it sends exactly one POST request.
C3_AddUserRole ==
  \A p \in Callers :
    LET c == calls[p] IN
    (c.op = "Org.AddUser" /\ c.pc # "idle")
      => IF c.arg.role \notin ValidRoles
         THEN Finished(c) /\ c.err # Nil /\ c.built = 0 /\ c.sent = << >>
         ELSE c.built = 1 /\ Len(c.sent) = 1 /\ c.sent[1].method = "POST"

C3_Witness ==
  \E p \in Callers :
    /\ Finished(calls[p]) /\ calls[p].op = "Org.AddUser"
    /\ calls[p].arg.role = "admin"
    /\ calls[p].err = "invalid role name: admin" /\ calls[p].sent = << >>

DecodesObject ==
  {"NewAnnotation", "NewGraphiteAnnotation", "UpdateAnnotation", "PatchAnnotation",
   "DeleteAnnotation", "DeleteAnnotationByRegionID", "Org", "OrgByName", "NewOrg"}
DecodesArray == {"Annotations", "Annotation", "Org.Users", "Orgs"}

\* C5: an operation that decodes the body of a 200 response returns a non-nil
\* error when that body is malformed JSON or not of the expected shape.
C5_DecodeFailureReported ==
  \A p \in Callers :
    LET c == calls[p]
        bad == \/ c.ans.body.t = "malformed"
               \/ c.op \in DecodesObject /\ c.ans.body.t \in {"arr", "num", "str", "bool"}
               \/ c.op \in DecodesArray /\ c.ans.body.t \in {"obj", "num", "str", "bool"}
    IN
    (Finished(c) /\ c.op \in DecodesObject \cup DecodesArray /\ Got200(c) /\ bad)
      => c.err # Nil

\* a body {"id": n}
IsIdBody(body) ==
  body.t = "obj" /\ DOMAIN body.o = {"id"} /\ body.o["id"].t = "num"

\* C6: NewAnnotation returns (n, nil) when the endpoint answers status 200
\* with the body {"id": n}.
C6_NewAnnotationId ==
  \A p \in Callers :
    LET c == calls[p] IN
    (Finished(c) /\ c.op = "NewAnnotation" /\ Got200(c) /\ IsIdBody(c.ans.body))
      => c.val = c.ans.body.o["id"].n /\ c.err = Nil

C6_Witness ==
  \E p \in Callers :
    /\ Finished(calls[p]) /\ calls[p].op = "NewAnnotation" /\ Got200(calls[p])
    /\ calls[p].ans.body = JObj([id |-> JNum(42)])
    /\ calls[p].val = 42 /\ calls[p].err = Nil

\* C7: each operation sends the method and path the interface documents:
\* GET /api/annotations for Annotations and Annotation, POST
\* /api/orgs/{id}/users for Org.AddUser, DELETE /api/annotations/{id} for
\* DeleteAnnotation, DELETE /api/annotations/region/{id} for
\* DeleteAnnotationByRegionID, GET /api/orgs/name/{name} for OrgByName.
C7_DocumentedPaths ==
  \A p \in Callers :
    LET c == calls[p]
        sends(method, path) == c.sent[1].method = method /\ c.sent[1].path = path
    IN
    Len(c.sent) >= 1 =>
      CASE c.op \in {"Annotations", "Annotation"} -> sends("GET", "/api/annotations")
        [] c.op = "Org.AddUser" ->
             sends("POST", "/api/orgs/" \o Itoa(c.arg.o.Id) \o "/users")
        [] c.op = "DeleteAnnotation" ->
             sends("DELETE", "/api/annotations/" \o Itoa(c.arg.id))
        [] c.op = "DeleteAnnotationByRegionID" ->
             sends("DELETE", "/api/annotations/region/" \o Itoa(c.arg.id))
        [] c.op = "OrgByName" -> sends("GET", "/api/orgs/name/" \o c.arg.name)
        [] OTHER -> TRUE

CreationOps == {"NewAnnotation", "NewGraphiteAnnotation", "NewOrg"}

\* the identifier a creation call returns
CreatedId(c) == IF c.op = "NewOrg" THEN c.val.Id ELSE c.val

\* C8, as claimed: every creation operation returns the number under the key
\* `id` of the 200 response body.
C8_IdFromIdKey ==
  \A p \in Callers :
    LET c == calls[p] IN
    (Finished(c) /\ c.op \in CreationOps /\ Got200(c) /\ IsIdBody(c.ans.body))
      => CreatedId(c) = c.ans.body.o["id"].n

\* C8, amended: NewAnnotation and NewGraphiteAnnotation return the number
\* under the key `id` of the 200 response body, NewOrg sets Org.Id to the
\* number under the key `orgId`.
C8_IdFromEndpointKey ==
  \A p \in Callers :
    LET c == calls[p]
        key == IF c.op = "NewOrg" THEN "orgId" ELSE "id"
    IN
    (/\ Finished(c) /\ c.op \in CreationOps /\ Got200(c)
     /\ c.ans.body.t = "obj" /\ key \in DOMAIN c.ans.body.o
     /\ c.ans.body.o[key].t = "num")
      => CreatedId(c) = c.ans.body.o[key].n

C8_Witness ==
  \E p \in Callers :
    /\ Finished(calls[p]) /\ calls[p].op = "NewOrg" /\ Got200(calls[p])
    /\ calls[p].ans.body = JObj([orgId |-> JNum(5), message |-> JStr("Organization created")])
    /\ calls[p].val = [Id |-> 5, Name |-> "ops"]

\* what an operation returns for its arguments and the answer to its request
Outcome(op, arg, ans) ==
  CASE op = "Annotations" -> AnnotationsResult(ans)
    [] op = "Annotation" -> AnnotationResult(arg.id, ans)
    [] op = "NewAnnotation" -> NewAnnotationResult(ans)
    [] op = "NewGraphiteAnnotation" -> NewGraphiteAnnotationResult(ans)
    [] op \in {"UpdateAnnotation", "PatchAnnotation", "DeleteAnnotation",
               "DeleteAnnotationByRegionID"} -> MessageResult(ans)
    [] op \in {"Org.AddUser", "Org.RemoveUser"} -> ReadOnlyResult(ans)
    [] op = "Org.Users" -> OrgUsersResult(ans)
    [] op \in {"Org", "OrgByName"} -> OrgResult(ans)
    [] op = "Orgs" -> OrgsResult(ans)
    [] op = "NewOrg" -> NewOrgResult(arg.name, ans)
    [] op = "DeleteOrg" -> DeleteOrgResult(ans)

\* C9: however the calls of several callers on one client interleave, the
\* client's configuration keeps the value it had at construction, every
\* request carries that base URL and credential, and what a call returns is
\* what its own arguments and the answer to its own request determine.
C9_ConfigReadOnly ==
  /\ config = NewClient
  /\ \A p \in Callers :
       LET c == calls[p] IN
       /\ \A i \in DOMAIN c.sent :
            /\ c.sent[i].auth = NewClient.key
            /\ c.sent[i].url = NewClient.baseURL \o c.sent[i].path
       /\ (Finished(c) /\ c.ans.kind # "none")
            => /\ c.val = Outcome(c.op, c.arg, c.ans).val
               /\ c.err = Outcome(c.op, c.arg, c.ans).err

C9_Witness ==
  /\ Finished(calls["c1"]) /\ calls["c1"].op = "Orgs" /\ calls["c1"].ans.kind = "fail"
  /\ Finished(calls["c2"]) /\ calls["c2"].op = "NewAnnotation" /\ calls["c2"].val = 42
  /\ config = NewClient

\* the keys of the wire format: those of fields marked omitempty, and the others
OptionalKeys(kind) ==
  CASE kind = "Annotation" ->
         {"id", "alertId", "userId", "userName", "newState", "prevState", "timeEnd",
          "metric", "regionId", "type", "tags", "isRegion"}
    [] kind = "GraphiteAnnotation" -> {"tags"}
    [] kind \in {"Org", "OrgUser"} -> {}

RequiredKeys(kind) ==
  CASE kind = "Annotation" -> {"dashboardId", "panelId", "time", "text"}
    [] kind = "GraphiteAnnotation" -> {"what", "when", "data"}
    [] kind = "Org" -> {"id", "name"}
    [] kind = "OrgUser" -> {"id", "login", "role", "orgId"}

\* the field of the record that the key carries is unset
Unset(kind, rec, key) ==
  \E i \in DOMAIN FieldsOf(kind) :
    /\ FieldsOf(kind)[i].key = key
    /\ rec[FieldsOf(kind)[i].name] = ZeroValue(FieldsOf(kind)[i].type)

\* C10: marshalling a record and unmarshalling the document gives back every
\* populated field; the document has no key for an unset omitempty field and
\* always has the keys of the other fields.
C10_WireRoundTrip ==
  /\ codec.pc \in {"wire", "back"} =>
       /\ codec.data.t = "obj"
       /\ DOMAIN codec.data.o \subseteq OptionalKeys(codec.kind) \cup RequiredKeys(codec.kind)
       /\ RequiredKeys(codec.kind) \subseteq DOMAIN codec.data.o
       /\ \A k \in OptionalKeys(codec.kind) :
            k \in DOMAIN codec.data.o <=> ~Unset(codec.kind, codec.rec, k)
  /\ codec.pc = "back" =>
       /\ codec.err = Nil
       /\ DOMAIN codec.back = DOMAIN codec.rec
       /\ \A f \in DOMAIN codec.rec :
            codec.rec[f] # ZeroValue(FieldNamed(FieldsOf(codec.kind), f).type)
              => codec.back[f] = codec.rec[f]

C10_Witness ==
  /\ codec.pc = "back" /\ codec.kind = "Annotation"
  /\ codec.rec = [Zero(AnnotationFields) EXCEPT !.Text = "s1"]
  /\ DOMAIN codec.data.o = {"dashboardId", "panelId", "time", "text"}
  /\ codec.back = codec.rec

====
